---- MODULE Spec2Model ----
(***************************************************************************)
(* Model of the TUN device packet engine of go_tcpip (network/tun.go):     *)
(* NewTun, Bind (the read pump and the write pump goroutines), Read,       *)
(* Write and Close, with the two buffered channels, the context and the    *)
(* device file.                                                            *)
(*                                                                         *)
(* Go semantics used:                                                      *)
(*  - a buffered channel is a FIFO of capacity QUEUE_SIZE; a send blocks   *)
(*    while it is full, a receive blocks while it is empty;                *)
(*  - a select picks one of its ready cases, any of them when several are  *)
(*    ready; with a default it never blocks; without one it blocks on the  *)
(*    channels it evaluated when it was entered;                           *)
(*  - calling a nil func, calling a method on a nil interface, indexing    *)
(*    an empty slice and slicing past the capacity panic; a panic in any   *)
(*    goroutine ends the process;                                          *)
(*  - os.File.Close on a closed file returns an error; os.File.Fd on a     *)
(*    closed file returns an invalid descriptor, so the system call fails. *)
(***************************************************************************)
EXTENDS Integers, Sequences, FiniteSets, TLC

\* ---------------------------------------------------------------- constants
QUEUE_SIZE == 10
PACKET_SIZE == 2048

\* ------------------------------------------------------------------- bounds
\* raw device reads the read pump completes in one run (failed ones included)
MaxDevReads == 12
\* raw device reads that fail while the handle is still open
MaxReadErrs == 1
\* Write calls made by the callers in one run
MaxWrites == 12
\* reads and writes of the run that exercises both directions at once
MixedOps == 2
\* raw device reads of the short runs of the incoming direction
ShortReads == 4
\* concurrent callers of Write
NumWriters == 2
\* Write calls begun after a Close call has returned nil
MaxLateWrites == 1
\* Bind calls of the runs that start the engine again (pump generations)
MaxStarts == 2
\* packets of the echo loop
EchoOps == 3
\* longest payload the device hands out
MaxLen == 2

Gens == 1..MaxStarts
Writers == 1..NumWriters

\* ------------------------------------------------------------------ packets
NoPkt == [Buf |-> <<>>, N |-> -1]

Min(a, b) == IF a < b THEN a ELSE b

\* The k-th packet the kernel hands to a raw read: distinct bytes per packet,
\* lengths 1..MaxLen, never longer than the buffer passed to read.
DevPayload(k) ==
    LET n == Min(1 + (k % MaxLen), PACKET_SIZE)
    IN  [i \in 1..n |-> (7 * k + i) % 256]

\* The packet a caller passes to its k-th Write call: a two-byte buffer of
\* which the first N (1 or 2) bytes are valid.
CallerPacket(k) ==
    [Buf |-> <<(3 * k) % 256, (3 * k + 1) % 256>>, N |-> 1 + (k % 2)]

\* The runs explored: the incoming direction alone (nobody calls Write), the
\* outgoing direction alone (an idle device, whose raw read blocks, and
\* nobody calls Read), and a short run with both.  A run gives the number of
\* raw reads the device answers, of Write, Bind and Close calls, whether a
\* caller calls Read, whether the caller is the echo loop of the test
\* program, and whether releasing the open file may fail.
Incoming ==
    [reads |-> MaxDevReads, writes |-> 0, starts |-> 1, closes |-> 1,
     reader |-> TRUE, echo |-> FALSE, closeFail |-> FALSE]

Outgoing ==
    [reads |-> 0, writes |-> MaxWrites, starts |-> 1, closes |-> 1,
     reader |-> FALSE, echo |-> FALSE, closeFail |-> FALSE]

Mixed ==
    [reads |-> MixedOps, writes |-> MixedOps, starts |-> 1, closes |-> 1,
     reader |-> TRUE, echo |-> FALSE, closeFail |-> FALSE]

IncomingShort ==
    [reads |-> ShortReads, writes |-> 0, starts |-> 1, closes |-> 1,
     reader |-> TRUE, echo |-> FALSE, closeFail |-> FALSE]

\* the incoming direction with nobody calling Read
Unread ==
    [reads |-> MaxDevReads, writes |-> 0, starts |-> 1, closes |-> 1,
     reader |-> FALSE, echo |-> FALSE, closeFail |-> FALSE]

\* Bind is called more than once, before or after Close, with one Write call
\* for each Bind call, an idle device and nobody calling Read
Restart ==
    [reads |-> 0, writes |-> MaxStarts, starts |-> MaxStarts,
     closes |-> 1, reader |-> FALSE, echo |-> FALSE, closeFail |-> FALSE]

\* the incoming direction with Close called twice and a release that may fail
Reclose ==
    [reads |-> ShortReads, writes |-> 0, starts |-> 1, closes |-> 2,
     reader |-> TRUE, echo |-> FALSE, closeFail |-> TRUE]

\* main of test/network: NewTun, Bind, then Read and Write in turn, no Close
Echo ==
    [reads |-> EchoOps, writes |-> EchoOps, starts |-> 1, closes |-> 0,
     reader |-> TRUE, echo |-> TRUE, closeFail |-> FALSE]

Scenarios == { Incoming, Outgoing, Mixed }

VARIABLES
    env,            \* the run's budgets (never changes)
    engine,         \* result of NewTun: "none" | "ok" | "open error" | "ioctl error"
    file,           \* the device file: "unopened" | "open" | "closed"
    ctx,            \* tun.ctx / tun.cancel: 0 = nil, g = the context of the g-th Bind
    cancelled,      \* the contexts whose Done channel is closed
    closer,         \* the caller of Close
    nCloses,        \* Close calls made
    closeOk,        \* a Close call has returned nil
    incomingQueue,  \* tun.incomingQueue
    rpump,          \* read pump goroutines, by generation
    reader,         \* the caller of Read
    devReads,       \* history: payloads returned by successful raw reads
    delivered,      \* history: packets returned by Read
    nReadErrs,      \* raw reads that failed while the handle was open
    lateEnq,        \* history: a packet entered the incoming queue after a
                    \* Close call had returned nil
    outgoingQueue,  \* tun.outgoingQueue
    wpump,          \* write pump goroutines, by generation
    writers,        \* the callers of Write
    accepted,       \* history: packets Write put into the outgoing queue
    devWrites,      \* history: raw writes issued: the bytes, the packet dequeued
    lastRaw,        \* the last raw write: the handle's state at the system call
                    \* and where Close stood when its packet was dequeued
    nWrites,        \* Write calls made
    nLate,          \* Write calls begun after a Close call returned nil
    lastWrite,      \* the Write call that returned last: when it began, its result
    panicked        \* the process died of a panic

lifeVars == << engine, file, ctx, cancelled, closer, nCloses, closeOk >>

inVars == << incomingQueue, rpump, reader, devReads, delivered, nReadErrs,
            lateEnq >>

outVars == << outgoingQueue, wpump, writers, accepted, devWrites, lastRaw,
              nWrites, nLate, lastWrite >>

vars == << env, lifeVars, inVars, outVars, panicked >>

\* ----------------------------------------------------------------- channels
\* (variant of ChanCanSend: room for one packet more than the capacity)
ChanCanSendOffByOne(q) == Len(q) <= QUEUE_SIZE

\* make(chan Packet, QUEUE_SIZE): a send proceeds while there is room
ChanCanSend(q) == Len(q) < QUEUE_SIZE

ChanCanRecv(q) == Len(q) > 0

ChanSend(q, p) == Append(q, p)

\* (variant of ChanHead: the newest packet is handed out instead of the oldest)
ChanNewest(q) == q[Len(q)]

\* a receive hands out the oldest packet of the buffer
ChanHead(q) == Head(q)

ChanRest(q) == Tail(q)

\* <-ctx.Done() is ready once the context has been cancelled
DoneReady(c) == c \in cancelled

\* --------------------------------------------------------------- raw device
\* NetDevice.read: the system call on t.file.Fd(); (0, error) on failure
SysRead(ok, k) ==
    IF ok THEN [n |-> Len(DevPayload(k)), buf |-> DevPayload(k), err |-> FALSE]
          ELSE [n |-> 0, buf |-> <<>>, err |-> TRUE]

\* Outcomes of the read system call entered on descriptor fd: on an open file
\* it returns a packet or (mayFail) an error; entered on an invalid descriptor
\* it fails; entered before Close released the file and returning after, it
\* is not interrupted and may still return a packet, or fail.
ReadOutcomes(fd, mayFail) ==
    IF fd # "open" THEN {FALSE}
    ELSE IF file = "open" THEN (IF mayFail THEN {TRUE, FALSE} ELSE {TRUE})
    ELSE {TRUE, FALSE}

\* Packet{Buf: buf[:n], N: n}
ReadPacket(r) == [Buf |-> SubSeq(r.buf, 1, r.n), N |-> r.n]

\* (variant of WriteSlice: the whole buffer is written, whatever N says)
WriteWholeBuf(pkt) == pkt.Buf

\* pkt.Buf[:pkt.N]
WriteSlice(pkt) == SubSeq(pkt.Buf, 1, pkt.N)

\* pkt.Buf[:pkt.N] panics past the capacity; &buf[0] panics on an empty slice
WritePanics(pkt) == pkt.N > Len(pkt.Buf) \/ pkt.N = 0

\* ------------------------------------------------------------------ derived
\* read pumps holding a packet between the raw read and the enqueue
InHand == { g \in Gens : rpump[g].pc = "enqueue" }

\* raw reads completed so far
ReadsDone == Len(delivered) + Len(incomingQueue) + Cardinality(InHand)

Running == engine = "ok" /\ ~panicked

\* where Close stands: the handle open, released, or released and cancelled
Lifecycle ==
    IF file = "open" THEN "open"
    ELSE IF cancelled = {} THEN "released" ELSE "cancelled"

\* --------------------------------------------------------------------- Init
InitWith(s) ==
    /\ env = s
    /\ engine = "none"
    /\ file = "unopened"
    /\ ctx = 0
    /\ cancelled = {}
    /\ closer = [pc |-> "idle", result |-> "none"]
    /\ nCloses = 0
    /\ closeOk = FALSE
    /\ incomingQueue = <<>>
    /\ rpump = [g \in Gens |-> [pc |-> "unborn", pkt |-> NoPkt, fd |-> "none"]]
    /\ reader = [pc |-> "idle", err |-> FALSE]
    /\ devReads = <<>>
    /\ delivered = <<>>
    /\ nReadErrs = 0
    /\ lateEnq = FALSE
    /\ outgoingQueue = <<>>
    /\ wpump = [g \in Gens |->
                  [pc |-> "unborn", done |-> 0, pkt |-> NoPkt, at |-> "open"]]
    /\ writers = [w \in Writers |->
                    [pc |-> "idle", pkt |-> NoPkt, done |-> 0,
                     afterClose |-> FALSE]]
    /\ accepted = <<>>
    /\ devWrites = <<>>
    /\ lastRaw = [handle |-> "none", dequeued |-> "none"]
    /\ nWrites = 0
    /\ nLate = 0
    /\ lastWrite = [afterClose |-> FALSE, result |-> "none"]
    /\ panicked = FALSE

Init == \E s \in Scenarios : InitWith(s)

\* ------------------------------------------------------------------- NewTun
\* NewTun: open /dev/net/tun, then the TUNSETIFF ioctl; each may fail.  On
\* an ioctl failure the function returns the error and leaves the file as
\* it is.
FileAfterNewTun(openOk, ioctlOk) == IF openOk THEN "open" ELSE "unopened"

EngineAfterNewTun(openOk, ioctlOk) ==
    IF ~openOk THEN "open error"
    ELSE IF ~ioctlOk THEN "ioctl error"
    ELSE "ok"

NewTun ==
    /\ engine = "none"
    /\ \E openOk \in BOOLEAN, ioctlOk \in BOOLEAN :
          /\ file' = FileAfterNewTun(openOk, ioctlOk)
          /\ engine' = EngineAfterNewTun(openOk, ioctlOk)
    /\ UNCHANGED << env, ctx, cancelled, closer, nCloses, closeOk, inVars,
                    outVars, panicked >>

\* --------------------------------------------------------------------- Bind
\* Bind: a fresh context replaces tun.ctx and tun.cancel, and the two pump
\* goroutines are started.  The write pump's first select waits on the new
\* context.
\* (variant of PumpsAfterBind: only the first Bind starts goroutines)
PumpsAfterFirstBind(p, g, fresh) == IF g > 1 THEN p ELSE [p EXCEPT ![g] = fresh]

\* go func() { ... }(): every Bind call starts its own goroutine, whatever
\* goroutines earlier calls started
PumpsAfterBind(p, g, fresh) == [p EXCEPT ![g] = fresh]

Bind ==
    /\ Running
    /\ ctx < env.starts
    /\ ctx' = ctx + 1
    /\ rpump' = PumpsAfterBind(rpump, ctx + 1,
                    [pc |-> "select", pkt |-> NoPkt, fd |-> "none"])
    /\ wpump' = PumpsAfterBind(wpump, ctx + 1,
                    [pc |-> "select", done |-> ctx + 1, pkt |-> NoPkt,
                     at |-> "open"])
    /\ UNCHANGED << env, engine, file, cancelled, closer, nCloses, closeOk,
                    incomingQueue, reader, devReads, delivered, nReadErrs,
                    lateEnq,
                    outgoingQueue, writers, accepted, devWrites, lastRaw,
                    nWrites, nLate, lastWrite, panicked >>

\* ---------------------------------------------------------------- read pump
\* select { case <-tun.ctx.Done(): return; default: ... }
RPumpAfterSelect(g) == IF DoneReady(ctx) THEN "done" ELSE "read"

\* On the default branch the pump enters tun.read: t.file.Fd() gives the
\* descriptor of the file as it is then, and the system call blocks on it.
RPumpSelect(g) ==
    /\ Running
    /\ rpump[g].pc = "select"
    /\ rpump' = [rpump EXCEPT ![g].pc = RPumpAfterSelect(g),
                              ![g].fd = IF RPumpAfterSelect(g) = "read"
                                        THEN file ELSE "none"]
    /\ UNCHANGED << env, lifeVars, incomingQueue, reader, devReads, delivered,
                    nReadErrs, lateEnq, outVars, panicked >>

\* n, err := tun.read(buf); an error is only logged and the loop body goes
\* on: the packet is built from buf[:n] with the n that read returned.
\* (variant of RPumpAfterRead: the pump returns when the raw read fails)
RPumpReturnsOnError(r) == IF r.err THEN "done" ELSE "enqueue"

\* (variant of RPumpAfterRead: the pump looks at the context after the read)
RPumpChecksAfterRead(r) == IF DoneReady(ctx) THEN "done" ELSE "enqueue"

\* after the read the loop body always goes on to the send, error or not
RPumpAfterRead(r) == "enqueue"

RPumpRead(g) ==
    /\ Running
    /\ rpump[g].pc = "read"
    /\ ReadsDone < env.reads
    /\ \E ok \in ReadOutcomes(rpump[g].fd, nReadErrs < MaxReadErrs) :
          LET r == SysRead(ok, Len(devReads) + 1)
          IN  /\ rpump' = [rpump EXCEPT ![g] =
                              [pc |-> RPumpAfterRead(r), pkt |-> ReadPacket(r),
                               fd |-> "none"]]
              /\ devReads' = IF r.err THEN devReads ELSE Append(devReads, r.buf)
              /\ nReadErrs' = IF r.err /\ file = "open" THEN nReadErrs + 1
                                                       ELSE nReadErrs
    /\ UNCHANGED << env, lifeVars, incomingQueue, reader, delivered, lateEnq,
                    outVars, panicked >>

\* tun.incomingQueue <- packet
RPumpEnqueue(g) ==
    /\ Running
    /\ rpump[g].pc = "enqueue"
    /\ ChanCanSend(incomingQueue)
    /\ incomingQueue' = ChanSend(incomingQueue, rpump[g].pkt)
    /\ rpump' = [rpump EXCEPT ![g] =
                    [pc |-> "select", pkt |-> NoPkt, fd |-> "none"]]
    /\ lateEnq' = (lateEnq \/ closeOk)
    /\ UNCHANGED << env, lifeVars, reader, devReads, delivered, nReadErrs,
                    outVars, panicked >>

\* --------------------------------------------------------------------- Read
\* (variant of IncomingClosed: Close closes the incoming queue when it cancels)
IncomingClosedByClose == cancelled # {}

\* no statement of the package closes t.incomingQueue
IncomingClosed == FALSE

\* a receive proceeds when the buffer holds a packet or the channel is closed
RecvReady == ChanCanRecv(incomingQueue) \/ IncomingClosed

\* pkt, ok := <-t.incomingQueue: with a packet in the buffer ok is true and
\* Read returns the head of the queue; on an empty closed channel ok is false
\* and Read returns "incoming queue is closed".
ReadResolve ==
    IF ChanCanRecv(incomingQueue)
    THEN /\ delivered' = Append(delivered, ChanHead(incomingQueue))
         /\ incomingQueue' = ChanRest(incomingQueue)
         /\ reader' = [pc |-> "idle", err |-> FALSE]
    ELSE /\ reader' = [pc |-> "idle", err |-> TRUE]
         /\ UNCHANGED << delivered, incomingQueue >>

\* Read is called; it blocks while the queue is empty.  The echo loop calls
\* Read when its last Write call has returned.
ReadCall ==
    /\ Running
    /\ env.reader
    /\ reader.pc = "idle"
    /\ env.echo =>
          /\ nWrites = Len(delivered)
          /\ \A w \in Writers : writers[w].pc = "idle"
    /\ IF RecvReady
       THEN ReadResolve
       ELSE /\ reader' = [reader EXCEPT !.pc = "blocked"]
            /\ UNCHANGED << delivered, incomingQueue >>
    /\ UNCHANGED << env, lifeVars, rpump, devReads, nReadErrs, lateEnq,
                    outVars, panicked >>

ReadWake ==
    /\ Running
    /\ reader.pc = "blocked"
    /\ RecvReady
    /\ ReadResolve
    /\ UNCHANGED << env, lifeVars, rpump, devReads, nReadErrs, lateEnq,
                    outVars, panicked >>

\* --------------------------------------------------------------- write pump
\* select { case <-tun.ctx.Done(): return; case pkt := <-tun.outgoingQueue: }
\* The ready cases; the select takes any one of them.
WPumpCases(g) ==
    (IF DoneReady(wpump[g].done) THEN {"done"} ELSE {})
    \cup (IF ChanCanRecv(outgoingQueue) THEN {"recv"} ELSE {})

WPumpSelect(g) ==
    /\ Running
    /\ wpump[g].pc = "select"
    /\ \E c \in WPumpCases(g) :
          IF c = "done"
          THEN /\ wpump' = [wpump EXCEPT ![g].pc = "done"]
               /\ UNCHANGED outgoingQueue
          ELSE /\ wpump' = [wpump EXCEPT ![g].pc = "write",
                                         ![g].pkt = ChanHead(outgoingQueue),
                                         ![g].at = Lifecycle]
               /\ outgoingQueue' = ChanRest(outgoingQueue)
    /\ UNCHANGED << env, lifeVars, inVars, writers, accepted, devWrites,
                    lastRaw, nWrites, nLate, lastWrite, panicked >>

\* _, err := tun.write(pkt.Buf[:pkt.N]); whether the system call succeeds
\* or fails (the error is only logged) the loop enters its select again, on
\* the context tun.ctx holds by then.
WPumpWrite(g) ==
    /\ Running
    /\ wpump[g].pc = "write"
    /\ IF WritePanics(wpump[g].pkt)
       THEN /\ panicked' = TRUE
            /\ UNCHANGED << wpump, devWrites, lastRaw >>
       ELSE /\ devWrites' = Append(devWrites,
                                [bytes |-> WriteSlice(wpump[g].pkt),
                                 pkt |-> wpump[g].pkt])
            /\ lastRaw' = [handle |-> file, dequeued |-> wpump[g].at]
            /\ wpump' = [wpump EXCEPT ![g] =
                            [pc |-> "select", done |-> ctx, pkt |-> NoPkt,
                             at |-> "open"]]
            /\ UNCHANGED panicked
    /\ UNCHANGED << env, lifeVars, inVars, outgoingQueue, writers, accepted,
                    nWrites, nLate, lastWrite >>

\* -------------------------------------------------------------------- Write
\* select { case t.outgoingQueue <- pkt: return nil
\*          case <-t.ctx.Done(): return fmt.Errorf("device closed") }
\* (variant of WriteCases: Write only sends, it does not watch the context)
WriteCasesSendOnly(c) == IF ChanCanSend(outgoingQueue) THEN {"send"} ELSE {}

\* The ready cases, for the context c the select was entered with.
WriteCases(c) ==
    (IF ChanCanSend(outgoingQueue) THEN {"send"} ELSE {})
    \cup (IF DoneReady(c) THEN {"done"} ELSE {})

WriteResult(k) == IF k = "send" THEN "nil" ELSE "device closed"

\* The select of writer w resolves by case k with packet pkt.
WriteResolve(w, k, pkt, after) ==
    /\ IF k = "send"
       THEN /\ outgoingQueue' = ChanSend(outgoingQueue, pkt)
            /\ accepted' = Append(accepted, pkt)
       ELSE UNCHANGED << outgoingQueue, accepted >>
    /\ writers' = [writers EXCEPT ![w] =
                      [pc |-> "idle", pkt |-> NoPkt, done |-> 0,
                       afterClose |-> FALSE]]
    /\ lastWrite' = [afterClose |-> after, result |-> WriteResult(k)]

\* The packet of the k-th Write call: the echo loop passes the packet its
\* k-th Read call returned, any other caller a packet of its own.
WritePacket(k) == IF env.echo THEN delivered[k] ELSE CallerPacket(k)

\* Write is called: t.ctx.Done() on a nil context panics; otherwise the
\* select resolves at once when a case is ready and blocks when none is.
\* The callers are interchangeable: of the idle ones the first makes the call.
WriteCall(w) ==
    /\ Running
    /\ writers[w].pc = "idle"
    /\ \A v \in Writers : v < w => writers[v].pc # "idle"
    /\ nWrites < env.writes
    /\ env.echo => (reader.pc = "idle" /\ nWrites < Len(delivered))
    /\ closeOk => nLate < MaxLateWrites
    /\ nWrites' = nWrites + 1
    /\ nLate' = IF closeOk THEN nLate + 1 ELSE nLate
    /\ LET pkt == WritePacket(nWrites + 1)
       IN  IF ctx = 0
           THEN /\ panicked' = TRUE
                /\ UNCHANGED << outgoingQueue, accepted, writers, lastWrite >>
           ELSE /\ UNCHANGED panicked
                /\ IF WriteCases(ctx) = {}
                   THEN /\ writers' = [writers EXCEPT ![w] =
                                [pc |-> "blocked", pkt |-> pkt, done |-> ctx,
                                 afterClose |-> closeOk]]
                        /\ UNCHANGED << outgoingQueue, accepted, lastWrite >>
                   ELSE \E k \in WriteCases(ctx) :
                            WriteResolve(w, k, pkt, closeOk)
    /\ UNCHANGED << env, lifeVars, inVars, wpump, devWrites, lastRaw >>

WriteWake(w) ==
    /\ Running
    /\ writers[w].pc = "blocked"
    /\ \E k \in WriteCases(writers[w].done) :
          WriteResolve(w, k, writers[w].pkt, writers[w].afterClose)
    /\ UNCHANGED << env, lifeVars, inVars, wpump, devWrites, lastRaw, nWrites,
                    nLate, panicked >>

\* -------------------------------------------------------------------- Close
\* err := t.file.Close(): a file that is already closed gives an error and
\* Close returns it; otherwise the handle is released and Close goes on.
\* (variant of FileCloseErr: closing a closed file is not an error)
FileCloseIdempotent(f) == FALSE

\* os.File.Close returns ErrClosed when the file has been closed before
FileCloseErr(f) == f # "open"

\* Releasing the open file may also fail in the operating system (osOk); the
\* file counts as closed all the same.
CloseCall ==
    /\ Running
    /\ closer.pc = "idle"
    /\ nCloses < env.closes
    /\ nCloses' = nCloses + 1
    /\ \E osOk \in (IF env.closeFail /\ file = "open" THEN BOOLEAN ELSE {TRUE}) :
          IF FileCloseErr(file) \/ ~osOk
          THEN /\ file' = (IF file = "open" THEN "closed" ELSE file)
               /\ closer' = [pc |-> "idle", result |-> "close error"]
          ELSE /\ file' = "closed"
               /\ closer' = [pc |-> "cancel", result |-> "none"]
    /\ UNCHANGED << env, engine, ctx, cancelled, closeOk, inVars, outVars,
                    panicked >>

\* t.cancel(); return nil.  A nil t.cancel (Bind was never called) panics.
CloseCancel ==
    /\ Running
    /\ closer.pc = "cancel"
    /\ IF ctx = 0
       THEN /\ panicked' = TRUE
            /\ UNCHANGED << cancelled, closer, closeOk >>
       ELSE /\ cancelled' = cancelled \cup {ctx}
            /\ closer' = [pc |-> "idle", result |-> "nil"]
            /\ closeOk' = TRUE
            /\ UNCHANGED panicked
    /\ UNCHANGED << env, engine, file, ctx, nCloses, inVars, outVars >>

\* --------------------------------------------------------------------- Next
ReadPump == \E g \in Gens : RPumpSelect(g) \/ RPumpRead(g) \/ RPumpEnqueue(g)

WritePump == \E g \in Gens : WPumpSelect(g) \/ WPumpWrite(g)

Read == ReadCall \/ ReadWake

Write == \E w \in Writers : WriteCall(w) \/ WriteWake(w)

Close == CloseCall \/ CloseCancel

Next ==
    \/ NewTun
    \/ Bind
    \/ ReadPump
    \/ WritePump
    \/ Read
    \/ Write
    \/ Close

Spec == Init /\ [][Next]_vars

\* The incoming direction alone: nobody calls Write, so the outgoing queue
\* stays empty and the write pump only waits for the cancellation.
NextIn ==
    \/ NewTun
    \/ Bind
    \/ ReadPump
    \/ \E g \in Gens : WPumpSelect(g)
    \/ Read
    \/ Close

SpecIn == InitWith(IncomingShort) /\ [][NextIn]_vars

\* The outgoing direction alone: the device is idle, so the read pump stays
\* in its raw read, and nobody calls Read.
NextOut ==
    \/ NewTun
    \/ Bind
    \/ \E g \in Gens : RPumpSelect(g)
    \/ WritePump
    \/ Write
    \/ Close

SpecOut == InitWith(Outgoing) /\ [][NextOut]_vars

\* The Go scheduler runs every runnable goroutine: a pump step, a Read or a
\* Write whose channel operation can proceed, and the second half of Close
\* are not postponed forever.  Nothing obliges a caller to call.
Fairness ==
    /\ \A g \in Gens : WF_vars(RPumpSelect(g) \/ RPumpEnqueue(g))
    /\ \A g \in Gens : WF_vars(WPumpSelect(g) \/ WPumpWrite(g))
    /\ \A w \in Writers : WF_vars(WriteWake(w))
    /\ WF_vars(CloseCancel)
    /\ WF_vars(Read)

FairSpecIn == SpecIn /\ Fairness

FairSpecOut == SpecOut /\ Fairness

\* The incoming direction with nobody calling Read.
NextUnread ==
    \/ NewTun
    \/ Bind
    \/ ReadPump
    \/ \E g \in Gens : WPumpSelect(g)
    \/ Close

SpecUnread == InitWith(Unread) /\ [][NextUnread]_vars

\* The pumps and Close are scheduled, and a raw read the device answers
\* returns; no caller is obliged to call.
PumpFairness ==
    /\ \A g \in Gens : WF_vars(RPumpSelect(g) \/ RPumpRead(g) \/ RPumpEnqueue(g))
    /\ \A g \in Gens : WF_vars(WPumpSelect(g) \/ WPumpWrite(g))
    /\ WF_vars(CloseCancel)

FairSpecUnread == SpecUnread /\ PumpFairness

\* Close called twice on the incoming direction.
SpecReclose == InitWith(Reclose) /\ [][NextIn]_vars

\* Bind called more than once: the device is idle, so the read
\* pumps stay in their raw read, nobody calls Read, and no Write call finds
\* the outgoing queue full.
NextRestart ==
    \/ NewTun
    \/ Bind
    \/ \E g \in Gens : RPumpSelect(g)
    \/ WritePump
    \/ \E w \in Writers : WriteCall(w)
    \/ Close

SpecRestart == InitWith(Restart) /\ [][NextRestart]_vars

\* The echo loop of the test program: it never calls Close, and its Write
\* calls never find the outgoing queue full.
NextEcho ==
    \/ NewTun
    \/ Bind
    \/ ReadPump
    \/ WritePump
    \/ Read
    \/ \E w \in Writers : WriteCall(w)

SpecEcho == InitWith(Echo) /\ [][NextEcho]_vars

\* ------------------------------------------------------------------- claims
IsPrefix(a, b) == Len(a) <= Len(b) /\ \A i \in 1..Len(a) : a[i] = b[i]

SeqToSet(q) == { q[i] : i \in 1..Len(q) }

\* the packet a Read caller should get for a payload the device handed out
PacketOf(payload) == [Buf |-> payload, N |-> Len(payload)]

\* the packets built from successful raw reads, in the order of the reads
ReadOk == [i \in 1..Len(devReads) |-> PacketOf(devReads[i])]

\* everything the read pump has produced and not lost, oldest first (one Bind)
InStream ==
    delivered \o incomingQueue
    \o (IF 1 \in InHand THEN << rpump[1].pkt >> ELSE <<>>)

\* everything the write pump has taken, oldest first (one Bind)
OutTaken ==
    [i \in 1..Len(devWrites) |-> devWrites[i].pkt]
    \o (IF wpump[1].pc = "write" THEN << wpump[1].pkt >> ELSE <<>>)

\* C1: the packets returned by Read are exactly the packets successfully
\* read from the device, in the order they were read, with the same bytes
\* and length, and with no other packet between them.
C1_FifoDelivery == IsPrefix(delivered, ReadOk)

\* C2: a Write call that begins after a Close call has returned nil returns
\* "device closed" (and so puts nothing into the outgoing queue).
C2_WriteAfterClose ==
    lastWrite.afterClose => lastWrite.result = "device closed"

\* C3: after Close has released the handle no raw write is performed on it:
\* every raw write finds the handle open and was dequeued while it was open.
C3_NoWriteAfterRelease ==
    lastRaw.handle # "closed" /\ lastRaw.dequeued \notin {"released", "cancelled"}

\* C5: a failed raw read puts nothing into the incoming queue: every packet
\* queued or returned by Read is the packet of a successful raw read.
C5_ReadErrorContained ==
    SeqToSet(delivered \o incomingQueue) \subseteq SeqToSet(ReadOk)

\* C7: when the ioctl fails after a successful open, NewTun returns no
\* engine and the file it opened has been closed.
C7_NoLeakOnIoctlError == engine = "ioctl error" => file # "open"

\* ---------------------------------------------------------------- C4
IsData(p) == p.N > 0

\* a read pump is blocked in its send: it holds a packet and the queue is full
RPumpBlocked(g) ==
    rpump[g].pc = "enqueue" /\ Len(incomingQueue) = QUEUE_SIZE

C4_Capacity ==
    /\ Len(incomingQueue) <= QUEUE_SIZE
    /\ Len(outgoingQueue) <= QUEUE_SIZE
    /\ SelectSeq(InStream, IsData) = ReadOk

\* C4: neither queue ever holds more than QUEUE_SIZE packets; while the
\* incoming queue is full the read pump that holds a packet stays where it
\* is, with its packet, and no raw read completes, until a Read call has
\* taken a packet; every packet read from the device is, in the order of
\* the reads, among the packets returned, queued or held by the pump.
C4_Backpressure ==
    /\ []C4_Capacity
    /\ [][\A g \in Gens :
            RPumpBlocked(g) =>
                /\ rpump'[g] = rpump[g]
                /\ devReads' = devReads
                /\ \/ incomingQueue' = incomingQueue
                   \/ /\ delivered' = Append(delivered, Head(incomingQueue))
                      /\ incomingQueue' = Tail(incomingQueue)]_vars

\* the incoming queue is full again, with the pump blocked on it, after a
\* Read call has already taken a packet
C4_Witness ==
    /\ RPumpBlocked(1)
    /\ Len(delivered) > 0
    /\ Len(devReads) > QUEUE_SIZE

\* ---------------------------------------------------------------- C6
\* a read pump ends only at its select, and only on a cancelled context
RPumpEndsOnlyOnCancel ==
    \A g \in Gens :
        (rpump[g].pc # "done" /\ rpump'[g].pc = "done")
            => (rpump[g].pc = "select" /\ DoneReady(ctx))

\* the k-th successfully read packet has been returned by Read
DeliveredOk(k) ==
    /\ Len(devReads) >= k
    /\ PacketOf(devReads[k]) \in SeqToSet(delivered)

\* C6: a failed raw read never ends the read pump (it ends only on a
\* cancelled context), and every packet a raw read succeeds in reading,
\* after any number of failed reads, is eventually returned by Read when
\* the consumer keeps calling Read.
C6_ReadErrorResilience ==
    /\ [][RPumpEndsOnlyOnCancel]_vars
    /\ \A k \in 1..ShortReads : (Len(devReads) >= k) ~> DeliveredOk(k)

\* Read has returned the packet of a failed read and, after it, the packet
\* of a read that succeeded
C6_Witness ==
    \E i, j \in 1..Len(delivered) :
        /\ i < j
        /\ ~IsData(delivered[i])
        /\ IsData(delivered[j])
        /\ nReadErrs > 0

\* ---------------------------------------------------------------- C8
\* C8: the i-th raw write carries exactly the first N bytes of the buffer of
\* the i-th packet Write accepted: as many bytes as its N, each unchanged.
C8_RoundTrip ==
    \A i \in 1..Len(devWrites) :
        /\ i <= Len(accepted)
        /\ Len(devWrites[i].bytes) = accepted[i].N
        /\ \A j \in 1..accepted[i].N :
              devWrites[i].bytes[j] = accepted[i].Buf[j]

\* raw writes were issued for a packet shorter than its buffer and for a
\* packet that fills its buffer
C8_Witness ==
    /\ \E i \in 1..Len(devWrites) :
          Len(devWrites[i].bytes) < Len(accepted[i].Buf)
    /\ \E i \in 1..Len(devWrites) :
          Len(devWrites[i].bytes) = Len(accepted[i].Buf)

\* ---------------------------------------------------------------- C9
Written == [i \in 1..Len(devWrites) |-> devWrites[i].pkt]

\* C9: the packets written to the device are, in order, a prefix of the
\* packets Write enqueued, and the packets Write enqueued are exactly those
\* written, then the one the pump holds, then those still queued: nothing
\* is reordered, duplicated or skipped.
C9_OutgoingFifo ==
    /\ IsPrefix(Written, accepted)
    /\ OutTaken \o outgoingQueue = accepted

\* two concurrent Write calls were enqueued in the opposite order of their
\* calls, and both packets have been written to the device
C9_Witness ==
    \E i \in 1..Len(devWrites), a \in 1..MaxWrites :
        /\ i > 1
        /\ accepted[i] = CallerPacket(a)
        /\ accepted[i - 1] = CallerPacket(a + 1)

\* --------------------------------------------------------------- C10
\* a blocked Write returns nil with its packet enqueued, or "device closed"
\* with the queue untouched and its context cancelled
BlockedWriteReturn(w) ==
    (writers[w].pc = "blocked" /\ writers'[w].pc = "idle") =>
        \/ /\ accepted' = Append(accepted, writers[w].pkt)
           /\ outgoingQueue' = Append(outgoingQueue, writers[w].pkt)
           /\ lastWrite'.result = "nil"
        \/ /\ accepted' = accepted
           /\ outgoingQueue' = outgoingQueue
           /\ lastWrite'.result = "device closed"
           /\ DoneReady(writers[w].done)

\* C10: a Write call blocked on the full outgoing queue returns once the
\* context is cancelled, and when it returns without having enqueued its
\* packet it returns "device closed".
C10_BlockedWriteReturns ==
    /\ [][\A w \in Writers : BlockedWriteReturn(w)]_vars
    /\ \A w \in Writers :
          (writers[w].pc = "blocked" /\ DoneReady(writers[w].done))
              ~> (writers[w].pc = "idle")

\* a Write call that began before Close returned, and blocked on the full
\* queue, has returned "device closed" with the queue still full
C10_Witness ==
    /\ lastWrite.result = "device closed"
    /\ ~lastWrite.afterClose
    /\ Len(outgoingQueue) = QUEUE_SIZE

\* --------------------------------------------------------------- C11
\* C11: after a Close call has returned nil no packet is put into the
\* incoming queue.
C11_NoEnqueueAfterClose == ~lateEnq

\* --------------------------------------------------------------- C12
\* the packets of the incoming direction in the order Read returns them:
\* those returned, then those queued
InOrder == delivered \o incomingQueue

ReadStuck ==
    /\ reader.pc = "blocked"
    /\ incomingQueue = <<>>
    /\ closeOk
    /\ ctx = env.starts
    /\ \A g \in Gens : rpump[g].pc \in {"unborn", "done"}

\* C13: Read never returns "incoming queue is closed", and a Read call
\* blocked on the empty queue after the shutdown stays blocked at every
\* later step: it never returns.
C13_IncomingNeverClosed ==
    /\ [](~reader.err)
    /\ [][ReadStuck => ReadStuck']_vars

C13_Witness == ReadStuck /\ Len(delivered) > 0

\* --------------------------------------------------------------- C14
\* C14: once the context of a Bind call is cancelled, its read pump and its
\* write pump both end, with no Read or Write call needed.
C14_PumpsTerminate ==
    \A g \in Gens :
        DoneReady(g) ~> (rpump[g].pc = "done" /\ wpump[g].pc = "done")

\* --------------------------------------------------------------- C15
\* C15: once tun.ctx, the context the pumps and Write look at, is cancelled,
\* it is cancelled at every later step.
C15_TokenOneWay == [][DoneReady(ctx) => DoneReady(ctx')]_vars

\* --------------------------------------------------------------- C16
\* C16: a released handle is never open again; a Close call made after a
\* Close call returned nil returns "close error" and changes neither the
\* handle nor any context; and a Close call that returns "close error"
\* leaves tun.ctx and the cancelled contexts as they were.
C16_ReleasedOnce ==
    /\ [][file = "closed" => file' = "closed"]_vars
    /\ [][(closeOk /\ nCloses' # nCloses) =>
            /\ closer' = [pc |-> "idle", result |-> "close error"]
            /\ file' = file
            /\ cancelled' = cancelled]_vars
    /\ [][(closer' # closer /\ closer'.result = "close error") =>
            (cancelled' = cancelled /\ ctx' = ctx)]_vars

\* the second Close call has returned "close error" after the first one
\* returned nil
C16_Witness ==
    /\ closeOk
    /\ nCloses = 2
    /\ closer = [pc |-> "idle", result |-> "close error"]

\* --------------------------------------------------------------- C17
\* a read pump ends only at its select; from its raw read it goes on to
\* the send, and its send puts the packet it holds at the tail of the queue
RPumpKeepsPacket(g) ==
    /\ (rpump[g].pc # "done" /\ rpump'[g].pc = "done") => rpump[g].pc = "select"
    /\ (rpump[g].pc = "read" /\ rpump'[g] # rpump[g]) => rpump'[g].pc = "enqueue"
    /\ (rpump[g].pc = "enqueue" /\ rpump'[g] # rpump[g]) =>
          /\ incomingQueue' = Append(incomingQueue, rpump[g].pkt)
          /\ rpump'[g].pc = "select"

\* C17: the read pump never ends between its raw read and its send, and a
\* pump that holds a packet when its context is cancelled puts that packet
\* into the incoming queue before it ends (the consumer keeps calling Read).
C17_InFlightCompletes ==
    /\ [][\A g \in Gens : RPumpKeepsPacket(g)]_vars
    /\ \A g \in Gens :
          (DoneReady(g) /\ rpump[g].pc = "enqueue")
              ~> (rpump[g].pc = "done" /\ lateEnq)

\* the pump has ended after putting a packet into the queue that it read or
\* held when Close returned
C17_Witness ==
    /\ lateEnq
    /\ rpump[1].pc = "done"
    /\ \E i \in 1..Len(InOrder) : IsData(InOrder[i])

\* --------------------------------------------------------------- C18
\* pumps inside a raw read and inside a raw write on the handle
RawReaders == { g \in Gens : rpump[g].pc = "read" /\ rpump[g].fd = "open" }

RawWriters == { g \in Gens : wpump[g].pc = "write" }

\* C18: every Bind call starts a read pump and a write pump of its own (the
\* pumps started are those of the Bind calls made), and with one Bind call
\* at most one pump is inside a raw read and at most one inside a raw write.
C18_EveryBindStartsPumps ==
    /\ \A g \in Gens : (g <= ctx) <=> (rpump[g].pc # "unborn")
    /\ \A g \in Gens : (g <= ctx) <=> (wpump[g].pc # "unborn")
    /\ ctx <= 1 =>
          (Cardinality(RawReaders) <= 1 /\ Cardinality(RawWriters) <= 1)

\* two read pumps are inside a raw read on the open handle while two write
\* pumps are inside a raw write
C18_Witness ==
    /\ file = "open"
    /\ Cardinality(RawReaders) >= 2
    /\ Cardinality(RawWriters) >= 2

\* --------------------------------------------------------------- C19
\* C19: the write pump does not die of a packet whose length is within its
\* buffer, a packet of length 0 included.
C19_WritePumpSurvives ==
    \A g \in Gens :
        (wpump[g].pc = "write" /\ wpump[g].pkt.N <= Len(wpump[g].pkt.Buf))
            => ~panicked

\* --------------------------------------------------------------- C20
\* C20: on an engine on which Bind has not been called no operation faults.
C20_UnstartedNeverFaults == ctx = 0 => ~panicked

====
